---- MODULE Spec2Model ----
(***************************************************************************)
(* german-ai-agent: the regex language classifier (detectLanguage), the    *)
(* conversation responder (getLanguageResponse) with its process-global    *)
(* BufferMemory history, and the Remix action endpoint that calls it.      *)
(*                                                                         *)
(* A text is a sequence of characters.  An ASCII character is the one-     *)
(* character string; a non-ASCII character is written by its code point,   *)
(* "U+00E4".  app/lib/langchain-gemini.ts stores its non-ASCII characters  *)
(* as the two-character sequences a UTF-8 file shows when it is read as    *)
(* windows-1250 ("U+0102","U+00A4" where a-umlaut U+00E4 was meant); the    *)
(* word lists, the character class and the fallback text below are the     *)
(* characters that are in the file.                                        *)
(***************************************************************************)
EXTENDS Integers, Sequences, FiniteSets, TLC

VARIABLES
    text,         \* classifier harness: the input under test
    tag,          \* classifier harness: the tag of the latest call, "none" before
    ncalls,       \* classifier harness: calls of detectLanguage made on text
    moduleState,  \* ~/lib/langchain-gemini: "unloaded", "loaded" or "failed"
    history,      \* memory: the BufferMemory chat history, a sequence of turns
    req,          \* per user: the action invocation in flight and its answer
    page          \* one browser page: the state of the Index component

vars == <<text, tag, ncalls, moduleState, history, req, page>>

----------------------------------------------------------------------------
(* Bounds of the model *)

\* recognition results a page is followed through
MaxTurns == 2
\* recognition sessions a page has started and not seen end
MaxSessions == 2
\* longest text the classifier harness enumerates
MaxLen == 4
\* calls of detectLanguage the harness makes on one text
MaxCalls == 2
\* requests are accepted while the history is shorter than this
MaxHistory == 2

----------------------------------------------------------------------------
(* Characters and the regular-expression primitives of detectLanguage *)

Lower == {"a","b","c","d","e","f","g","h","i","j","k","l","m",
          "n","o","p","q","r","s","t","u","v","w","x","y","z"}
Upper == {"A","B","C","D","E","F","G","H","I","J","K","L","M",
          "N","O","P","Q","R","S","T","U","V","W","X","Y","Z"}
Digit == {"0","1","2","3","4","5","6","7","8","9"}

\* \w of a regular expression without the u flag: ASCII letters, digits, _
WordChar(c) == c \in Lower \cup Upper \cup Digit \cup {"_"}

UpperOf ==
    [c \in Lower |->
        CASE c = "a" -> "A" [] c = "b" -> "B" [] c = "c" -> "C" [] c = "d" -> "D"
          [] c = "e" -> "E" [] c = "f" -> "F" [] c = "g" -> "G" [] c = "h" -> "H"
          [] c = "i" -> "I" [] c = "j" -> "J" [] c = "k" -> "K" [] c = "l" -> "L"
          [] c = "m" -> "M" [] c = "n" -> "N" [] c = "o" -> "O" [] c = "p" -> "P"
          [] c = "q" -> "Q" [] c = "r" -> "R" [] c = "s" -> "S" [] c = "t" -> "T"
          [] c = "u" -> "U" [] c = "v" -> "V" [] c = "w" -> "W" [] c = "x" -> "X"
          [] c = "y" -> "Y" [] c = "z" -> "Z"]

\* Canonicalize of the i flag: the character's upper case (the non-ASCII
\* pairs are those of the characters the word lists and the inputs use)
Canonicalize(c) ==
    IF c \in Lower THEN UpperOf[c]
    ELSE IF c = "U+0103" THEN "U+0102"
    ELSE IF c = "U+013E" THEN "U+013D"
    ELSE IF c = "U+00E4" THEN "U+00C4"
    ELSE c

\* \b at position p (between text[p-1] and text[p]), p in 1..Len(text)+1
IsBoundary(t, p) ==
    LET before == p > 1 /\ WordChar(t[p - 1])
        after  == p <= Len(t) /\ WordChar(t[p])
    IN  before # after

\* the alternative w matches t at p, ignoring case
MatchesAt(t, p, w) ==
    /\ p + Len(w) - 1 <= Len(t)
    /\ \A k \in 1..Len(w) : Canonicalize(t[p + k - 1]) = Canonicalize(w[k])

\* /\b(w1|w2|...)\b/ at p: the length matched, by the first alternative in
\* list order that matches and is followed by \b; 0 when there is none
AltLen(t, p, words) ==
    LET ok == {j \in 1..Len(words) :
                  MatchesAt(t, p, words[j]) /\ IsBoundary(t, p + Len(words[j]))}
    IN  IF ~IsBoundary(t, p) \/ ok = {} THEN 0
        ELSE Len(words[CHOOSE j \in ok : \A k \in ok : j <= k])

\* (text.match(/\b(...)\b/gi) || []).length: matches found left to right,
\* each search resuming where the previous match ended
RECURSIVE MatchCountFrom(_, _, _)
MatchCountFrom(t, p, words) ==
    IF p > Len(t) THEN 0
    ELSE LET n == AltLen(t, p, words)
         IN  IF n > 0 THEN 1 + MatchCountFrom(t, p + n, words)
             ELSE MatchCountFrom(t, p + 1, words)

MatchCount(t, words) == MatchCountFrom(t, 1, words)

germanWords == <<
    <<"i","c","h">>, <<"d","u">>, <<"e","r">>, <<"s","i","e">>, <<"e","s">>, <<"w","i","r">>,
    <<"i","h","r">>, <<"s","i","e">>, <<"d","e","r">>, <<"d","i","e">>, <<"d","a","s">>,
    <<"e","i","n">>, <<"e","i","n","e">>, <<"u","n","d">>, <<"o","d","e","r">>,
    <<"a","b","e","r">>, <<"m","i","t">>, <<"v","o","n">>, <<"z","u">>, <<"i","n">>,
    <<"a","u","f">>, <<"f","U+0102","U+013D","r">>, <<"i","s","t">>, <<"s","i","n","d">>,
    <<"w","a","r">>, <<"w","a","r","e","n">>, <<"h","a","b","e","n">>, <<"h","a","t">>,
    <<"h","a","t","t","e">>, <<"h","a","t","t","e","n">>, <<"w","e","r","d","e","n">>,
    <<"w","i","r","d">>, <<"w","u","r","d","e">>, <<"w","u","r","d","e","n">>,
    <<"k","U+0102","U+00B6","n","n","e","n">>, <<"k","a","n","n">>,
    <<"k","o","n","n","t","e">>, <<"k","o","n","n","t","e","n">>,
    <<"m","U+0102","U+013D","s","s","e","n">>, <<"m","u","s","s">>,
    <<"m","u","s","s","t","e">>, <<"m","u","s","s","t","e","n">>, <<"s","o","l","l","e","n">>,
    <<"s","o","l","l">>, <<"s","o","l","l","t","e">>, <<"s","o","l","l","t","e","n">>,
    <<"w","o","l","l","e","n">>, <<"w","i","l","l">>, <<"w","o","l","l","t","e">>,
    <<"w","o","l","l","t","e","n">>, <<"d","U+0102","U+013D","r","f","e","n">>,
    <<"d","a","r","f">>, <<"d","u","r","f","t","e">>, <<"d","u","r","f","t","e","n">>
>>

englishWords == <<
    <<"i">>, <<"y","o","u">>, <<"h","e">>, <<"s","h","e">>, <<"i","t">>, <<"w","e">>,
    <<"t","h","e","y">>, <<"t","h","e">>, <<"a">>, <<"a","n">>, <<"a","n","d">>, <<"o","r">>,
    <<"b","u","t">>, <<"w","i","t","h">>, <<"f","r","o","m">>, <<"t","o">>, <<"i","n">>,
    <<"o","n">>, <<"f","o","r">>, <<"i","s">>, <<"a","r","e">>, <<"w","a","s">>,
    <<"w","e","r","e">>, <<"h","a","v","e">>, <<"h","a","s">>, <<"h","a","d">>,
    <<"w","i","l","l">>, <<"w","o","u","l","d">>, <<"c","a","n">>, <<"c","o","u","l","d">>,
    <<"s","h","o","u","l","d">>, <<"s","h","a","l","l">>, <<"m","u","s","t">>, <<"m","a","y">>,
    <<"m","i","g","h","t">>, <<"d","o">>, <<"d","o","e","s">>, <<"d","i","d">>,
    <<"g","e","t">>, <<"g","o","t">>, <<"g","o">>, <<"w","e","n","t">>, <<"c","o","m","e">>,
    <<"c","a","m","e">>, <<"s","e","e">>, <<"s","a","w">>, <<"k","n","o","w">>,
    <<"k","n","e","w">>, <<"t","h","i","n","k">>, <<"t","h","o","u","g","h","t">>,
    <<"t","a","k","e">>, <<"t","o","o","k">>, <<"g","i","v","e">>, <<"g","a","v","e">>,
    <<"m","a","k","e">>, <<"m","a","d","e">>
>>

\* the characters of the class in /[...]/ of hasGermanChars, as stored
GermanCharClass ==
    {"U+0102", "U+00A4", "U+00B6", "U+013D", "U+017A", "U+201E", "U+2013", "U+015B"}

germanMatches(t) == MatchCount(t, germanWords)
englishMatches(t) == MatchCount(t, englishWords)
hasGermanChars(t) == \E k \in 1..Len(t) : t[k] \in GermanCharClass

\* mutant: the tie goes to German (>= for >)
detectLanguage_tieDe(t) ==
    IF hasGermanChars(t) \/ germanMatches(t) >= englishMatches(t) THEN "de"
    ELSE IF englishMatches(t) > 0 THEN "en"
    ELSE "de"

\* mutant: the final return gives the other tag
detectLanguage_defaultEn(t) ==
    IF hasGermanChars(t) \/ germanMatches(t) > englishMatches(t) THEN "de"
    ELSE IF englishMatches(t) > 0 THEN "en"
    ELSE "en"

\* mutant: the regular expressions live outside the function and keep their
\* position between calls, so every second call finds nothing
detectLanguage_stale(t) ==
    IF ncalls % 2 = 1 THEN "de"
    ELSE IF hasGermanChars(t) \/ germanMatches(t) > englishMatches(t) THEN "de"
    ELSE IF englishMatches(t) > 0 THEN "en"
    ELSE "de"

detectLanguage(t) ==
    IF hasGermanChars(t) \/ germanMatches(t) > englishMatches(t) THEN "de"
    ELSE IF englishMatches(t) > 0 THEN "en"
    ELSE "de"

----------------------------------------------------------------------------
(* The responder: getLanguageResponse and the chain it calls *)

Users == {"u1", "u2"}

\* String.prototype.trim removes white space and line terminators
WhiteSpace == {" ", "\t", "\n", "\r"}

RECURSIVE TrimStart(_)
TrimStart(s) ==
    IF s # <<>> /\ Head(s) \in WhiteSpace THEN TrimStart(Tail(s)) ELSE s

RECURSIVE TrimEnd(_)
TrimEnd(s) ==
    IF s # <<>> /\ s[Len(s)] \in WhiteSpace
    THEN TrimEnd(SubSeq(s, 1, Len(s) - 1)) ELSE s

Trim(s) == TrimEnd(TrimStart(s))

\* "Sorry, I had a small problem. Could you say that again?"
FallbackEn == <<
    "S","o","r","r","y",","," ","I"," ","h","a","d"," ","a"," ","s","m","a",
    "l","l"," ","p","r","o","b","l","e","m","."," ","C","o","u","l","d"," ",
    "y","o","u"," ","s","a","y"," ","t","h","a","t"," ","a","g","a","i","n",
    "?" >>

\* "Entschuldigung, ich hatte ein kleines Problem. K..nnen Sie das noch
\* einmal sagen?", the two characters after K as stored in the file
FallbackDe == <<
    "E","n","t","s","c","h","u","l","d","i","g","u","n","g",","," ","i","c",
    "h"," ","h","a","t","t","e"," ","e","i","n"," ","k","l","e","i","n","e",
    "s"," ","P","r","o","b","l","e","m","."," ","K","U+0102","U+00B6","n","n",
    "e","n"," ","S","i","e"," ","d","a","s"," ","n","o","c","h"," ","e","i",
    "n","m","a","l"," ","s","a","g","e","n","?" >>

\* what the model answers: free-form text, white space around it or not
ProviderOutputs == {<<"J","a">>, <<" ","I"," ","d","o","\n">>}

\* the value getLanguageResponse resolves to
Returned(t, lang) ==
    [kind |-> "value", text |-> t, language |-> lang, detectedLanguage |-> lang]

\* getLanguageResponse rejecting (the code has no such path)
Thrown == [kind |-> "throw"]

\* mutant: the two fallback texts are exchanged
FallbackResult_swapped(userInput) ==
    LET detectedLanguage == detectLanguage(userInput)
    IN  Returned(IF detectedLanguage = "en" THEN FallbackDe ELSE FallbackEn,
                 detectedLanguage)

\* mutant: the catch block logs and rethrows
FallbackResult_rethrow(userInput) == Thrown

\* the catch block: the fallback text for the input's tag
FallbackResult(userInput) ==
    LET detectedLanguage == detectLanguage(userInput)
    IN  Returned(IF detectedLanguage = "en" THEN FallbackEn ELSE FallbackDe,
                 detectedLanguage)

\* mutant: the response is returned as it came
SuccessResult_untrimmed(detectedLanguage, response) ==
    Returned(response, detectedLanguage)

\* the try block after predict resolved with response
SuccessResult(detectedLanguage, response) ==
    Returned(Trim(response), detectedLanguage)

----------------------------------------------------------------------------
(* The server process: the action endpoint and the shared chain memory *)

\* the transcript field of a submitted form: <<>> when the form has no such
\* field (formData.get gives null), <<t>> when its value is the text t
Forms ==
    {<<>>, << <<>> >>, << <<" ">> >>, << <<"i">> >>, << <<"e","r">> >>}

\* !transcript: null and the empty string are falsy
Falsy(form) == form = <<>> \/ form[1] = <<>>

Idle ==
    [pc |-> "idle", form |-> <<>>, consulted |-> <<>>, detected |-> "none",
     calls |-> 0, output |-> <<>>, outcome |-> "none",
     result |-> [kind |-> "none"], response |-> [status |-> 0]]

\* json(data, init): the answer of the action
Json(body, status) == [status |-> status, body |-> body]

\* one input/response pair of the chat history; by is the user whose request
\* saved it, kept for the statements below (the memory does not record it)
Turn(u, input, output) == [by |-> u, input |-> input, output |-> output]

\* mutant: a history per user
LoadMemory_perUser(u) == SelectSeq(history, LAMBDA turn : turn.by = u)

\* memory.loadMemoryVariables: the whole buffer, whoever wrote it
LoadMemory(u) == history

\* mutant: a window of the latest turn only
SaveContext_window(u, input, output) == <<Turn(u, input, output)>>

\* memory.saveContext: the pair is appended
SaveContext(u, input, output) == Append(history, Turn(u, input, output))

InFlight == {u \in Users : req[u].pc \notin {"idle", "answered"}}

\* a client posts a form to the route
Submit(u, form) ==
    /\ req[u].pc = "idle"
    /\ Len(history) + Cardinality(InFlight) < MaxHistory
    /\ req' = [req EXCEPT ![u] = [Idle EXCEPT !.pc = "action", !.form = form]]
    /\ UNCHANGED <<page, text, tag, ncalls, moduleState, history>>

\* mutant: the 400 branch is missing
Validate_none(u) ==
    /\ req[u].pc = "action"
    /\ req' = [req EXCEPT ![u].pc = "import"]
    /\ UNCHANGED <<page, text, tag, ncalls, moduleState, history>>

\* action: the transcript is read and checked
Validate(u) ==
    /\ req[u].pc = "action"
    /\ req' = [req EXCEPT ![u] =
                 IF Falsy(req[u].form)
                 THEN [@ EXCEPT !.pc = "answered",
                         !.response = Json([error |-> "No transcript provided"], 400)]
                 ELSE [@ EXCEPT !.pc = "import"]]
    /\ UNCHANGED <<page, text, tag, ncalls, moduleState, history>>

\* action: await import("~/lib/langchain-gemini").  The module is evaluated
\* once per process: it builds the model client, the memory and the chain,
\* or throws (no API key), and a failed evaluation fails every later import
Import(u, ok) ==
    /\ req[u].pc = "import"
    /\ moduleState' = IF moduleState = "unloaded"
                      THEN (IF ok THEN "loaded" ELSE "failed")
                      ELSE moduleState
    /\ req' = [req EXCEPT ![u] =
                 IF moduleState' = "loaded"
                 THEN [@ EXCEPT !.pc = "respond"]
                 ELSE [@ EXCEPT !.pc = "answered",
                         !.response = Json([error |-> "Processing failed"], 500)]]
    /\ UNCHANGED <<page, text, tag, ncalls, history>>

\* getLanguageResponse up to the provider call: the tag of the input, and
\* predict reads the memory into the prompt
Respond(u) ==
    /\ req[u].pc = "respond"
    /\ req' = [req EXCEPT ![u] =
                 [@ EXCEPT !.pc = "provider",
                           !.detected = detectLanguage(req[u].form[1]),
                           !.consulted = LoadMemory(u),
                           !.calls = @ + 1]]
    /\ UNCHANGED <<page, text, tag, ncalls, moduleState, history>>

\* the provider answers: predict saves the turn and resolves, the try block
\* trims and returns
ProviderSucceeds(u, output) ==
    /\ req[u].pc = "provider"
    /\ history' = SaveContext(u, req[u].form[1], output)
    /\ req' = [req EXCEPT ![u] =
                 [@ EXCEPT !.pc = "returned",
                           !.outcome = "ok",
                           !.output = output,
                           !.result = SuccessResult(req[u].detected, output)]]
    /\ UNCHANGED <<page, text, tag, ncalls, moduleState>>

\* mutant: the call is made again after it raised
ProviderFails_retry(u) ==
    /\ req[u].pc = "provider"
    /\ req' = [req EXCEPT ![u] = [@ EXCEPT !.calls = @ + 1]]
    /\ UNCHANGED <<page, text, tag, ncalls, moduleState, history>>

\* the provider call raises: nothing is saved, the catch block answers
ProviderFails(u) ==
    /\ req[u].pc = "provider"
    /\ req' = [req EXCEPT ![u] =
                 [@ EXCEPT !.pc = "returned",
                           !.outcome = "error",
                           !.result = FallbackResult(req[u].form[1])]]
    /\ UNCHANGED <<page, text, tag, ncalls, moduleState, history>>

\* the answer for what the awaited getLanguageResponse gave: its three
\* fields, or the 500 of the catch block
ResponseOf(result) ==
    IF result.kind = "value"
    THEN Json([text |-> result.text,
               language |-> result.language,
               detectedLanguage |-> result.detectedLanguage], 200)
    ELSE Json([error |-> "Processing failed"], 500)

\* action: the awaited call resolved (or rejected) and the answer is built
Answer(u) ==
    /\ req[u].pc = "returned"
    /\ req' = [req EXCEPT ![u] =
                 [@ EXCEPT !.pc = "answered", !.response = ResponseOf(req[u].result)]]
    /\ UNCHANGED <<page, text, tag, ncalls, moduleState, history>>

\* the client has the answer; its next request starts afresh
Deliver(u) ==
    /\ req[u].pc = "answered"
    /\ req' = [req EXCEPT ![u] = Idle]
    /\ UNCHANGED <<page, text, tag, ncalls, moduleState, history>>

\* the Index component as mounted: the useState initial values, no
\* recognition started, the fetcher idle and without data.  variant is
\* "bilingual" (the two pages with the language switch) or "german"
NewPage(variant) ==
    [variant |-> variant,
     isRecording |-> FALSE,
     isProcessing |-> FALSE,
     conversation |-> <<>>,
     currentLanguage |-> "de-DE",
     sessions |-> <<>>,
     fetcher |-> [state |-> "idle", form |-> <<>>, data |-> <<>>]]

Init ==
    /\ text = <<>>
    /\ tag = "none"
    /\ ncalls = 0
    /\ moduleState = "unloaded"
    /\ history = <<>>
    /\ req = [u \in Users |-> Idle]
    /\ page = NewPage("bilingual")

Next ==
    \/ \E u \in Users, form \in Forms : Submit(u, form)
    \/ \E u \in Users : Validate(u)
    \/ \E u \in Users, ok \in BOOLEAN : Import(u, ok)
    \/ \E u \in Users : Respond(u)
    \/ \E u \in Users, output \in ProviderOutputs : ProviderSucceeds(u, output)
    \/ \E u \in Users : ProviderFails(u)
    \/ \E u \in Users : Answer(u)
    \/ \E u \in Users : Deliver(u)

Spec == Init /\ [][Next]_vars

----------------------------------------------------------------------------
(* The classifier on its own: every text over Alphabet up to MaxLen *)

\* i, in (both lists), er, ein, eine; I for the i flag; a-umlaut, which the
\* class was meant to hold, and the en dash, which it holds
Alphabet == {"i", "n", "e", "r", "I", " ", "U+00E4", "U+2013"}

Texts == UNION {[1..n -> Alphabet] : n \in 0..MaxLen}

\* a history that holds a turn, for the calls to leave alone
SampleHistories == {<<Turn("u1", <<"i">>, <<"J","a">>)>>}

InitClassifier ==
    /\ text \in Texts
    /\ tag = "none"
    /\ ncalls = 0
    /\ moduleState = "loaded"
    /\ history \in SampleHistories
    /\ req = [u \in Users |-> Idle]
    /\ page = NewPage("bilingual")

\* one call detectLanguage(text)
Classify ==
    /\ ncalls < MaxCalls
    /\ tag' = detectLanguage(text)
    /\ ncalls' = ncalls + 1
    /\ UNCHANGED <<text, moduleState, history, req, page>>

NextClassifier == Classify

SpecClassifier == InitClassifier /\ [][NextClassifier]_vars

----------------------------------------------------------------------------
(* The page: the Index component, its recognition sessions and its fetcher *)

Variants == {"bilingual", "german"}

\* what the recogniser hands to onresult
Transcripts == {<<>>, <<"i">>, <<"e","r">>}

\* every answer the action can give to a form: 400 for a transcript that is
\* missing or empty; otherwise 500 when the import fails, the provider's
\* text trimmed, or the fallback
Answers(form) ==
    IF Falsy(form)
    THEN {Json([error |-> "No transcript provided"], 400)}
    ELSE {Json([error |-> "Processing failed"], 500)}
         \cup {ResponseOf(SuccessResult(detectLanguage(form[1]), output)) :
                   output \in ProviderOutputs}
         \cup {ResponseOf(FallbackResult(form[1]))}

\* mutant: the new state is the entry alone
AppendEntry_replace(prev, entry) == <<entry>>

\* setConversation(prev => [...prev, entry])
AppendEntry(prev, entry) == Append(prev, entry)

\* the sequence s without its k-th element
Without(s, k) == SubSeq(s, 1, k - 1) \o SubSeq(s, k + 1, Len(s))

\* the microphone button: disabled={isRecording || isProcessing}
ButtonDisabled == page.isRecording \/ page.isProcessing

\* the language of a user entry: currentLanguage as the handler's closure
\* holds it on the pages with the switch, the literal 'de' on the German page
UserLanguage(session) ==
    IF page.variant = "bilingual" THEN session.lang ELSE "de"

\* a click on the microphone button: startSpeechRecognition builds a
\* recogniser, sets its handlers and starts it; isRecording is left for
\* onstart.  (A browser without the API shows an alert and nothing changes.)
ClickMicrophone ==
    /\ ~ButtonDisabled
    /\ Len(page.sessions) < MaxSessions
    /\ Len(SelectSeq(page.conversation, LAMBDA e : e.isUser)) + Len(page.sessions)
           < MaxTurns
    /\ page' = [page EXCEPT !.sessions =
                   Append(@, [lang |-> page.currentLanguage, started |-> FALSE])]
    /\ UNCHANGED <<text, tag, ncalls, moduleState, history, req>>

\* recognition.onstart
RecognitionStart(k) ==
    /\ k \in 1..Len(page.sessions)
    /\ ~page.sessions[k].started
    /\ page' = [page EXCEPT !.sessions[k].started = TRUE, !.isRecording = TRUE]
    /\ UNCHANGED <<text, tag, ncalls, moduleState, history, req>>

\* recognition.onresult: the utterance is logged and posted; a submit on a
\* fetcher that is submitting takes the place of the earlier submission.
\* The session is single-shot and ends with its result
RecognitionResult(k, transcript) ==
    /\ k \in 1..Len(page.sessions)
    /\ page.sessions[k].started
    /\ page' = [page EXCEPT
                   !.conversation =
                       AppendEntry(@, [text |-> transcript, isUser |-> TRUE,
                                       language |-> UserLanguage(page.sessions[k])]),
                   !.fetcher = [@ EXCEPT !.state = "submitting",
                                         !.form = <<transcript>>],
                   !.isRecording = FALSE,
                   !.isProcessing = TRUE,
                   !.sessions = Without(@, k)]
    /\ UNCHANGED <<text, tag, ncalls, moduleState, history, req>>

\* mutant: a failed recognition is started again
RecognitionError_retry(k) ==
    /\ k \in 1..Len(page.sessions)
    /\ page' = [page EXCEPT
                   !.isRecording = FALSE,
                   !.sessions = Append(Without(@, k),
                                       [lang |-> page.currentLanguage,
                                        started |-> FALSE])]
    /\ UNCHANGED <<text, tag, ncalls, moduleState, history, req>>

\* recognition.onerror (no-speech, not-allowed, aborted, ...), before or
\* after onstart; the session is over
RecognitionError(k) ==
    /\ k \in 1..Len(page.sessions)
    /\ page' = [page EXCEPT !.isRecording = FALSE, !.sessions = Without(@, k)]
    /\ UNCHANGED <<text, tag, ncalls, moduleState, history, req>>

\* a started session ends with neither result nor error (nomatch, end): no
\* handler is set for it
RecognitionEnds(k) ==
    /\ k \in 1..Len(page.sessions)
    /\ page.sessions[k].started
    /\ page' = [page EXCEPT !.sessions = Without(@, k)]
    /\ UNCHANGED <<text, tag, ncalls, moduleState, history, req>>

\* useEffect on fetcher.data: for data without an error field the reply is
\* logged, the listening language follows detectedLanguage (on the pages
\* with the switch), the reply is spoken and isProcessing is reset; for data
\* with an error field the effect does nothing
FetcherEffect(p, data) ==
    IF "error" \notin DOMAIN data.body
    THEN [p EXCEPT
             !.conversation =
                 AppendEntry(@, [text |-> data.body.text, isUser |-> FALSE,
                                 language |-> data.body.language]),
             !.currentLanguage =
                 IF p.variant = "bilingual" /\ data.body.detectedLanguage # ""
                 THEN (IF data.body.detectedLanguage = "en" THEN "en-US" ELSE "de-DE")
                 ELSE @,
             !.isProcessing = FALSE]
    ELSE p

\* the answer of the action arrives: fetcher.data changes and the effect runs
FetcherData(data) ==
    /\ page.fetcher.state = "submitting"
    /\ data \in Answers(page.fetcher.form)
    /\ page' = FetcherEffect([page EXCEPT !.fetcher.state = "idle",
                                          !.fetcher.data = <<data>>], data)
    /\ UNCHANGED <<text, tag, ncalls, moduleState, history, req>>

\* toggleLanguage, on the pages that have the switch
ToggleLanguage ==
    /\ page.variant = "bilingual"
    /\ page' = [page EXCEPT !.currentLanguage =
                   IF @ = "de-DE" THEN "en-US" ELSE "de-DE"]
    /\ UNCHANGED <<text, tag, ncalls, moduleState, history, req>>

InitPage ==
    /\ text = <<>>
    /\ tag = "none"
    /\ ncalls = 0
    /\ moduleState = "unloaded"
    /\ history = <<>>
    /\ req = [u \in Users |-> Idle]
    /\ page \in {NewPage(v) : v \in Variants}

NextPage ==
    \/ ClickMicrophone
    \/ \E k \in 1..MaxSessions : RecognitionStart(k)
    \/ \E k \in 1..MaxSessions, transcript \in Transcripts :
           RecognitionResult(k, transcript)
    \/ \E k \in 1..MaxSessions : RecognitionError(k)
    \/ \E k \in 1..MaxSessions : RecognitionEnds(k)
    \/ \E data \in UNION {Answers(<<t>>) : t \in Transcripts} : FetcherData(data)
    \/ ToggleLanguage

SpecPage == InitPage /\ [][NextPage]_vars

----------------------------------------------------------------------------
(* Statements about the classifier, under SpecClassifier *)

\* the letters the specification calls German-specific: a-, o-, u-umlaut,
\* sharp s, and the three capital umlauts
GermanAccented ==
    {"U+00E4", "U+00F6", "U+00FC", "U+00DF", "U+00C4", "U+00D6", "U+00DC"}

HasAccented(t) == \E k \in 1..Len(t) : t[k] \in GermanAccented

\* tag is what detectLanguage returned for text
Classified == ncalls > 0

C2_AccentedIsGerman ==
    (Classified /\ HasAccented(text)) => tag = "de"

\* C3: a text without a German accented letter and with more English than
\* German matches is classified "en"
C3_EnglishMajority ==
    (/\ Classified
     /\ ~HasAccented(text)
     /\ englishMatches(text) > germanMatches(text)) => tag = "en"

\* C4: a text without a German accented letter and without a match in
\* either list, the empty text among them, is classified "de"
C4_DefaultIsGerman ==
    (/\ Classified
     /\ ~HasAccented(text)
     /\ germanMatches(text) = 0
     /\ englishMatches(text) = 0) => tag = "de"

\* the empty text has been classified
C4_EmptyWitness ==
    /\ Classified
    /\ text = <<>>
    /\ tag = "de"

----------------------------------------------------------------------------
(* Statements about the responder and the action, under Spec *)

Input(u) == req[u].form[1]

\* C6: after the provider call raised, the value returned holds the English
\* fallback text if the input's tag is "en" and the German one otherwise,
\* and language and detectedLanguage are both the input's tag
C6_Fallback ==
    \A u \in Users :
        (req[u].outcome = "error" /\ req[u].pc \in {"returned", "answered"}) =>
            /\ req[u].result.kind = "value"
            /\ req[u].result.text \in {FallbackEn, FallbackDe}
            /\ (req[u].result.text = FallbackEn) <=> (detectLanguage(Input(u)) = "en")
            /\ req[u].result.language = detectLanguage(Input(u))
            /\ req[u].result.detectedLanguage = detectLanguage(Input(u))

\* an English input whose provider call raised
C6_FallbackWitness ==
    \E u \in Users :
        /\ req[u].outcome = "error"
        /\ req[u].pc = "returned"
        /\ Input(u) = <<"i">>
        /\ req[u].result.text = FallbackEn

\* C7: after the provider call raised, getLanguageResponse returns a value
\* and the action answers {text, language, detectedLanguage}, never {error}
C7_FailureNotSurfaced ==
    \A u \in Users :
        req[u].outcome = "error" =>
            /\ req[u].pc = "returned" => req[u].result.kind = "value"
            /\ req[u].pc = "answered" =>
                   /\ req[u].response.status = 200
                   /\ DOMAIN req[u].response.body =
                          {"text", "language", "detectedLanguage"}

\* the action has answered a request whose provider call raised
C7_AnsweredWitness ==
    \E u \in Users :
        /\ req[u].outcome = "error"
        /\ req[u].pc = "answered"
        /\ req[u].response.status = 200
        /\ ~Falsy(req[u].form)

\* the responder was entered for u's request
Invoked(u) == req[u].detected # "none"

\* C8: a missing or empty transcript is answered 400 with an error field,
\* the responder is not entered and the history stays as it is; any other
\* transcript is never answered 400 and goes on to the responder
C8_Validation ==
    /\ [](\A u \in Users :
            req[u].pc # "idle" =>
                IF Falsy(req[u].form)
                THEN /\ req[u].pc \in {"action", "answered"}
                     /\ ~Invoked(u)
                     /\ req[u].outcome = "none"
                     /\ req[u].pc = "answered" =>
                            /\ req[u].response.status = 400
                            /\ "error" \in DOMAIN req[u].response.body
                ELSE /\ req[u].pc = "answered" => req[u].response.status # 400
                     /\ (req[u].pc = "answered" /\ moduleState = "loaded") =>
                            Invoked(u))
    /\ [][\A u \in Users :
            /\ (req[u].pc = "action" /\ Falsy(req[u].form) /\ req'[u] # req[u]) =>
                   /\ history' = history
                   /\ req'[u].pc = "answered"
            /\ (req[u].pc = "action" /\ ~Falsy(req[u].form) /\ req'[u] # req[u]) =>
                   req'[u].pc = "import"]_vars

\* a form without the field and a form with the empty text, both answered
\* 400, beside a history that holds a turn
C8_RejectedWitness ==
    /\ history # <<>>
    /\ \E u, v \in Users :
        /\ req[u].pc = "answered" /\ req[u].form = <<>>
        /\ req[u].response.status = 400
        /\ req[v].pc = "answered" /\ req[v].form = << <<>> >>
        /\ req[v].response.status = 400

\* C9: every call reads the one history of the process, turns of other users
\* included, and a turn enters it when its own provider call returns
C9_SharedHistory ==
    /\ [](\A u \in Users :
            req[u].pc = "provider" =>
                /\ Len(req[u].consulted) <= Len(history)
                /\ req[u].consulted = SubSeq(history, 1, Len(req[u].consulted)))
    /\ [][\A u \in Users :
            /\ (req[u].pc = "respond" /\ req'[u].pc = "provider") =>
                   req'[u].consulted = history
            /\ (req[u].pc = "provider" /\ req'[u].pc = "returned"
                    /\ req'[u].outcome = "ok") =>
                   /\ Len(history') = Len(history) + 1
                   /\ history'[Len(history')].by = u
                   /\ history'[Len(history')].input = Input(u)]_vars

\* the history read for the call of u holds a turn that another user saved
C9_LeakWitness ==
    \E u \in Users :
        /\ req[u].pc = "provider"
        /\ \E k \in 1..Len(req[u].consulted) : req[u].consulted[k].by # u

\* C10: no step shortens or rewrites the history: what was there stays, in
\* place, and a step adds at most one turn at the end
C10_AppendOnly ==
    [][/\ Len(history') \in {Len(history), Len(history) + 1}
       /\ SubSeq(history', 1, Len(history)) = history]_vars

\* the history has grown to the bound of the model, by turns of two users
C10_GrownWitness ==
    /\ Len(history) >= MaxHistory
    /\ Len(history) > 1
    /\ \E j, k \in 1..Len(history) : history[j].by # history[k].by

\* C11: an invocation of getLanguageResponse calls the provider once, be
\* the call answered or not; after a call that raised, no further call is
\* made and the value returned is the fallback
C11_SingleCall ==
    \A u \in Users :
        /\ req[u].calls = (IF Invoked(u) THEN 1 ELSE 0)
        /\ req[u].outcome = "error" =>
               /\ req[u].pc \in {"returned", "answered"}
               /\ req[u].result.kind = "value"
               /\ req[u].result.text \in {FallbackEn, FallbackDe}

\* one request answered with the fallback and one with the provider's text,
\* a single call made for each
C11_BothWitness ==
    \E u, v \in Users :
        /\ req[u].pc = "answered" /\ req[u].outcome = "error" /\ req[u].calls = 1
        /\ req[v].pc = "answered" /\ req[v].outcome = "ok" /\ req[v].calls = 1

\* s without white space at either end
Trimmed(s) == s = <<>> \/ (s[1] \notin WhiteSpace /\ s[Len(s)] \notin WhiteSpace)

\* s is raw with white space taken from its two ends and nothing else
TrimOf(s, raw) ==
    /\ Trimmed(s)
    /\ \E a \in 0..Len(raw) :
        /\ a + Len(s) <= Len(raw)
        /\ SubSeq(raw, a + 1, a + Len(s)) = s
        /\ \A k \in (1..a) \cup ((a + Len(s) + 1)..Len(raw)) : raw[k] \in WhiteSpace

\* C14: after the provider answered, text is the answer without the white
\* space at its ends and language and detectedLanguage are the tag of the
\* input, not of the answer; the two tags are equal in every value returned
C14_SuccessShape ==
    \A u \in Users :
        /\ (req[u].outcome = "ok" /\ req[u].pc \in {"returned", "answered"}) =>
               /\ req[u].result.kind = "value"
               /\ TrimOf(req[u].result.text, req[u].output)
               /\ req[u].result.language = detectLanguage(Input(u))
               /\ req[u].result.detectedLanguage = detectLanguage(Input(u))
        /\ req[u].result.kind = "value" =>
               req[u].result.language = req[u].result.detectedLanguage

\* a German input answered in English with white space around the answer
C14_TrimWitness ==
    \E u \in Users :
        /\ req[u].outcome = "ok"
        /\ req[u].pc = "returned"
        /\ req[u].output = <<" ","I"," ","d","o","\n">>
        /\ req[u].result.text = <<"I"," ","d","o">>
        /\ detectLanguage(req[u].output) = "en"
        /\ req[u].result.language = "de"

----------------------------------------------------------------------------
(* Statements about the page, under SpecPage *)

Log == page.conversation

\* C12: every entry of the conversation log, utterance or reply, carries
\* the language tag "de" or "en", on every variant of the page
C12_TagsClosed ==
    \A k \in 1..Len(Log) : Log[k].language \in {"de", "en"}

\* the answer that has just arrived holds an error field
ErrorAnswerStep ==
    /\ page.fetcher.state = "submitting"
    /\ page'.fetcher.state = "idle"
    /\ "error" \in DOMAIN page'.fetcher.data[1].body

\* the answer that has just arrived holds a reply
ReplyStep ==
    /\ page.fetcher.state = "submitting"
    /\ page'.fetcher.state = "idle"
    /\ "error" \notin DOMAIN page'.fetcher.data[1].body

\* C13: a step leaves the log as it is or adds one entry at its end, the
\* entries before it unchanged; a recognition result and a reply each add
\* one; a recognition error, an answer with an error field and the language
\* switch add none
C13_LogAppendOnly ==
    [][/\ \/ Log' = Log
          \/ Len(Log') = Len(Log) + 1 /\ SubSeq(Log', 1, Len(Log)) = Log
       /\ (\E k \in 1..MaxSessions, t \in Transcripts : RecognitionResult(k, t)) =>
              /\ Len(Log') = Len(Log) + 1
              /\ Log'[Len(Log')].isUser
       /\ ReplyStep =>
              /\ Len(Log') = Len(Log) + 1
              /\ ~Log'[Len(Log')].isUser
       /\ ((\E k \in 1..MaxSessions : RecognitionError(k))
              \/ ErrorAnswerStep \/ ToggleLanguage) => Log' = Log]_vars

\* two utterances and a reply in the log, the first utterance still first
C13_GrownWitness ==
    /\ Len(Log) >= 3
    /\ Log[1].isUser /\ Log[1].text = <<"i">>
    /\ ~Log[2].isUser
    /\ Log[3].isUser /\ Log[3].text = <<"e","r">>

C16_ProcessingLeft ==
    page.fetcher.state = "idle" => ~page.isProcessing

\* C17: at most one recognition session is active, at most one submission
\* is in flight, and isRecording and isProcessing are not both true
C17_OneTurn ==
    /\ Len(page.sessions) <= 1
    /\ ~(page.isRecording /\ page.isProcessing)
    /\ page.fetcher.state = "submitting" => page.sessions = <<>>

====
